---- MODULE Spec2Model ----
(***************************************************************************)
(* A model of the IoA instant-messaging server, src/im_server/app_copy.py: *)
(* the agent directory (AgentRegistry), the session store (SessionManager),*)
(* the chat records (chat_record_manager), the connection registry         *)
(* (ConnectionManager), the single observer slot (frontend_ws) and the     *)
(* per-connection routing loops (websocket_endpoint, websocket_chatlist).  *)
(*                                                                         *)
(* The handlers are coroutines on one event loop: a handler runs without   *)
(* interruption from one await that suspends to the next.  One step of the *)
(* model is one such run.  The awaits that suspend are receive_text and a  *)
(* write that was accepted by a live channel; a write to a channel whose   *)
(* peer is gone raises at once.                                            *)
(***************************************************************************)
EXTENDS Integers, Sequences, FiniteSets, TLC

\* ------------------------------------------------------------------ bounds
MaxFrames   == 2      \* inbound frames over all agent connections
MaxSessions == 1      \* teamup requests
MaxMembers  == 1      \* length of the agent_names list of a teamup request
MaxRequested == 3     \* the same length, where only the teamup endpoint runs
MaxHits     == 2      \* candidates returned per capability keyword
MaxKeywords == 2      \* capability keywords per retrieve request
MaxFetchIds == 2      \* ids in the list of a fetch_chat_record request

Names     == {"a", "b c"}            \* agent names (one needs URL quoting)
MoreNames == Names \cup {"x"}         \* with a name that never connects
Descs     == {"d1", "d2"}
Types     == {"t1", "t2"}
Times     == {"09-00-00", "09-00-01"} \* readings of datetime.now()
TeamNames == {"team"}
Conns     == {"c1", "c2"}            \* agent websocket connections
Observers == {"o1"}                  \* frontend websocket connections
None      == "None"
Unbound   == <<>>                    \* a local the handler never assigned
UnknownIds == {0}                    \* a comm_id no teamup generated

VARIABLES
    agents,              \* agent_registry.agents: name -> AgentEntry
    sessions,            \* session_manager.sessions: comm_id -> member list
    chat_record_manager, \* comm_id -> chat record
    agent_to_websocket,  \* connection_manager.agent_to_websocket
    frontend_ws,         \* the observer slot, None or an observer channel
    pc,                  \* where each connection's handler stands
    agent_name,          \* websocket_endpoint's local agent_name
    parsed_data,         \* websocket_endpoint's local parsed_data: <<>> or <<message>>
    cursor,              \* position of the fan-out loop of each handler
    gone,                \* channels whose peer is gone or that were closed
    delivered,           \* what each channel's peer has been sent
    nframes,             \* inbound frames received so far
    http                 \* the last teamup request and its response

vars == <<agents, sessions, chat_record_manager, agent_to_websocket, frontend_ws,
          pc, agent_name, parsed_data, cursor, gone, delivered, nframes, http>>

\* --------------------------------------------------------------- helpers
Range(s) == {s[i] : i \in 1..Len(s)}

SeqsUpTo(S, n) == UNION {[1..k -> S] : k \in 0..n}

\* urllib.parse.quote / unquote on the names of the model: a space is the one
\* character of Names that quote escapes.
quote(s) ==
    CASE s = "b c"   -> "b%20c"
      [] s = "b%20c" -> "b%2520c"
      [] OTHER       -> s

unquote(s) ==
    CASE s = "b%20c"   -> "b c"
      [] s = "b%2520c" -> "b%20c"
      [] OTHER         -> s

\* The agent_name path parameter as the framework hands it to the endpoint.
PathParams == Names \cup {"b%20c"}

\* Reading store[key] from a mapping-like store that holds no such key raises
\* KeyError (AutoStoredDict is a mapping with get/set/contains semantics).
MissingKey(store, key) == key \notin DOMAIN store

\* What a write to a channel whose peer is gone raises: WebSocketDisconnect,
\* the one exception the handlers catch, or an error of another class.
SendErrors == {"WebSocketDisconnect", "RuntimeError"}

NoRequest == [op |-> "none"]

\* ------------------------------------------------------- AgentRegistry
AgentInfos == [name : Names, desc : Descs, type : Types]

AgentEntry(agent, timestamp) ==
    [name |-> agent.name, desc |-> agent.desc, type |-> agent.type,
     created_at |-> timestamp]

\* `agent.name in self.agents`
IsRegistered(name) == name \in DOMAIN agents

\* register without its `if agent.name in self.agents: return` guard.
AgentsAfterRegisterUnguarded(agent, timestamp) ==
    agent.name :> AgentEntry(agent, timestamp)
        @@ [n \in DOMAIN agents \ {agent.name} |-> agents[n]]

\* AgentRegistry.register: a coroutine without an await, so it runs atomically.
AgentsAfterRegister(agent, timestamp) ==
    IF IsRegistered(agent.name)
    THEN agents
    ELSE agent.name :> AgentEntry(agent, timestamp) @@ agents

\* AgentRegistry.query on a list of names: one AgentInfo or None per name.
query_list(names) ==
    [i \in 1..Len(names) |->
        IF IsRegistered(names[i])
        THEN [name |-> names[i], desc |-> agents[names[i]].desc,
              type |-> agents[names[i]].type]
        ELSE None]

\* AgentRegistry.query on a single name.
query(name) == query_list(<<name>>)[1]

\* A duplicate test that never finds the name.
SeenNever(name, deduplicate_ids) == FALSE

\* `hit.get("name") not in deduplicate_ids`, negated.
Seen(name, deduplicate_ids) == name \in deduplicate_ids

\* The two loops of AgentRegistry.retrieve over the search result `res` (one
\* list of hits per capability), at hit j of list i, with the names seen so far
\* in deduplicate_ids and the hits kept so far in deduplicate_hits.
RECURSIVE retrieve_loop(_, _, _, _, _)
retrieve_loop(res, i, j, deduplicate_ids, deduplicate_hits) ==
    IF i > Len(res) THEN deduplicate_hits
    ELSE IF j > Len(res[i])
    THEN retrieve_loop(res, i + 1, 1, deduplicate_ids, deduplicate_hits)
    ELSE IF ~Seen(res[i][j].name, deduplicate_ids)
    THEN retrieve_loop(res, i, j + 1, deduplicate_ids \cup {res[i][j].name},
                       Append(deduplicate_hits, res[i][j]))
    ELSE retrieve_loop(res, i, j + 1, deduplicate_ids, deduplicate_hits)

\* AgentRegistry.retrieve, given what search_via_config returned.
retrieve(res) ==
    LET hits == retrieve_loop(res, 1, 1, {}, <<>>)
    IN  [k \in 1..Len(hits) |->
            [name |-> hits[k].name, type |-> hits[k].type, desc |-> hits[k].desc]]

\* ------------------------------------------------------ SessionManager
\* teamup without its `if name in agent_registry.agents.keys()` filter.
session_group_unfiltered(agent_names) == agent_names

\* The filter loop of SessionManager.teamup: the names found in the directory.
RECURSIVE session_group(_)
session_group(agent_names) ==
    IF agent_names = <<>> THEN <<>>
    ELSE IF Head(agent_names) \in DOMAIN agents
    THEN <<Head(agent_names)>> \o session_group(Tail(agent_names))
    ELSE session_group(Tail(agent_names))

\* uuid.uuid4().hex: an id no earlier teamup produced.
NewCommId == Cardinality(DOMAIN sessions) + 1

\* --------------------------------------------------- send_to_frontend
\* How send_to_frontend ends: no observer bound ("skipped"), the write taken by
\* a live channel ("sent"), WebSocketDisconnect caught and the slot cleared
\* ("cleared"), or an error of another class left to the caller ("raised").
FrontendOutcome(err) ==
    IF frontend_ws = None THEN "skipped"
    ELSE IF frontend_ws \notin gone THEN "sent"
    ELSE IF err = "WebSocketDisconnect" THEN "cleared"
    ELSE "raised"

FrontendAfter(err) ==
    IF FrontendOutcome(err) = "cleared" THEN None ELSE frontend_ws

\* The channels' received frames after send_to_frontend(data, type).
DeliveredAfterFrontend(data, type, err) ==
    IF FrontendOutcome(err) = "sent"
    THEN [delivered EXCEPT ![frontend_ws] =
              Append(@, [frontend_type |-> type, data |-> data])]
    ELSE delivered

\* ------------------------------------------------------------ teamup
TeamupParams(names, n) ==
    [agent_names : SeqsUpTo(names, n), sender : names, team_name : TeamNames]

TeamupResult(param) ==
    [comm_id |-> NewCommId,
     agent_names |-> session_group(param.agent_names \o <<param.sender>>),
     team_name |-> param.team_name]

\* A teamup that stores the session and creates no chat record for it.
teamup_without_record(param, err) ==
    LET result == TeamupResult(param) IN
    /\ Cardinality(DOMAIN sessions) < MaxSessions
    /\ sessions' = result.comm_id :> result.agent_names @@ sessions
    /\ frontend_ws' = FrontendAfter(err)
    /\ delivered' = DeliveredAfterFrontend(result, "teamup", err)
    /\ UNCHANGED <<agents, chat_record_manager, agent_to_websocket, pc, agent_name,
                   parsed_data, cursor, gone, nframes>>

\* POST /teamup: the session is stored, its chat record created, the result
\* mirrored to the observer and returned.
teamup(param, err) ==
    LET result == TeamupResult(param) IN
    /\ Cardinality(DOMAIN sessions) < MaxSessions
    /\ sessions' = result.comm_id :> result.agent_names @@ sessions
    /\ chat_record_manager' =
           result.comm_id :> [comm_id |-> result.comm_id,
                              agent_names |-> result.agent_names,
                              team_name |-> param.team_name,
                              chat_record |-> <<>>] @@ chat_record_manager
    /\ frontend_ws' = FrontendAfter(err)
    /\ delivered' = DeliveredAfterFrontend(result, "teamup", err)
    /\ UNCHANGED <<agents, agent_to_websocket, pc, agent_name, parsed_data,
                   cursor, gone, nframes>>

\* A register that also enters a new name into every session made so far.
register_agent_joining(agent, timestamp) ==
    /\ agents' = AgentsAfterRegister(agent, timestamp)
    /\ sessions' = [id \in DOMAIN sessions |->
                       IF IsRegistered(agent.name) THEN sessions[id]
                       ELSE Append(sessions[id], agent.name)]
    /\ UNCHANGED <<chat_record_manager, agent_to_websocket, frontend_ws,
                   pc, agent_name, parsed_data, cursor, gone, delivered, nframes>>

\* POST /register
register_agent(agent, timestamp) ==
    /\ agents' = AgentsAfterRegister(agent, timestamp)
    /\ UNCHANGED <<sessions, chat_record_manager, agent_to_websocket, frontend_ws,
                   pc, agent_name, parsed_data, cursor, gone, delivered, nframes>>

\* ------------------------------------------------- ConnectionManager
\* ConnectionManager.connect: the binding after `self.agent_to_websocket[key] = ws`.
Bind(key, websocket) ==
    key :> websocket @@ [k \in DOMAIN agent_to_websocket \ {key} |-> agent_to_websocket[k]]

\* ConnectionManager.disconnect: `self.agent_to_websocket.pop(key, None)`.
Unbind(key) ==
    [k \in DOMAIN agent_to_websocket \ {key} |-> agent_to_websocket[k]]

\* The lookup of ConnectionManager.send_personal_message finds a binding.
HasBinding(receiver) == receiver \in DOMAIN agent_to_websocket

\* --------------------------------------------- websocket_endpoint
\* The handler ends with an exception it does not catch; the framework closes
\* its channel.  The binding stays in the registry.
Crashed(c) ==
    /\ pc' = [pc EXCEPT ![c] = "crashed"]
    /\ gone' = gone \cup {c}
    /\ UNCHANGED <<agent_to_websocket, agent_name, cursor, delivered>>

\* The `except WebSocketDisconnect` branch of websocket_endpoint.
Disconnected(c) ==
    /\ agent_name' = [agent_name EXCEPT ![c] = quote(@)]
    /\ agent_to_websocket' = Unbind(quote(agent_name[c]))
    /\ pc' = [pc EXCEPT ![c] = "closed"]
    /\ gone' = gone \cup {c}
    /\ UNCHANGED <<cursor, delivered>>

\* The fan-out loop of handler c at member i of the session of `message`, run
\* up to the next write that suspends: send_personal_message looks the receiver
\* up, and with no binding its local `websocket` is unassigned when it is used.
FanoutAt(c, message, i, err) ==
    LET receivers == sessions[message.comm_id] IN
    IF i > Len(receivers)
    THEN /\ pc' = [pc EXCEPT ![c] = "recv"]
         /\ cursor' = [cursor EXCEPT ![c] = 0]
         /\ UNCHANGED <<agent_to_websocket, agent_name, gone, delivered>>
    ELSE IF ~HasBinding(receivers[i])
    THEN Crashed(c)
    ELSE IF agent_to_websocket[receivers[i]] \in gone
    THEN IF err = "WebSocketDisconnect" THEN Disconnected(c) ELSE Crashed(c)
    ELSE /\ delivered' = [delivered EXCEPT ![agent_to_websocket[receivers[i]]] =
                              Append(@, message)]
         /\ pc' = [pc EXCEPT ![c] = "send"]
         /\ cursor' = [cursor EXCEPT ![c] = i]
         /\ UNCHANGED <<agent_to_websocket, agent_name, gone>>

\* `for receiver in session_manager.sessions[parsed_data.comm_id]`
FanoutStart(c, message, err) ==
    IF MissingKey(sessions, message.comm_id)
    THEN Crashed(c)
    ELSE FanoutAt(c, message, 1, err)

\* The chat record left as it was: the append of `message` is lost.
NotAppended(message) == chat_record_manager

\* The chat record after lines 177-181 appended `message`.
Appended(message) ==
    [chat_record_manager EXCEPT ![message.comm_id].chat_record = Append(@, message)]

\* Lines 172-186 for the value of parsed_data: the session check only logs,
\* the record is read, extended and stored, the message is mirrored to the
\* observer and the fan-out starts.
Process(c, message, err) ==
    IF MissingKey(chat_record_manager, message.comm_id)
    THEN /\ Crashed(c)
         /\ UNCHANGED <<chat_record_manager, frontend_ws>>
    ELSE /\ chat_record_manager' = Appended(message)
         /\ CASE FrontendOutcome(err) = "sent" ->
                   /\ delivered' = DeliveredAfterFrontend(message, "message", err)
                   /\ pc' = [pc EXCEPT ![c] = "mirror"]
                   /\ UNCHANGED <<frontend_ws, agent_to_websocket, agent_name,
                                  cursor, gone>>
              [] FrontendOutcome(err) = "raised" ->
                   /\ Crashed(c)
                   /\ UNCHANGED frontend_ws
              [] OTHER ->
                   /\ frontend_ws' = FrontendAfter(err)
                   /\ FanoutStart(c, message, err)

\* A connect that also enters the connecting name into the directory.
connect_registering(c, param) ==
    /\ pc[c] = "idle"
    /\ agent_to_websocket' = Bind(param, c)
    /\ agent_name' = [agent_name EXCEPT ![c] = unquote(param)]
    /\ pc' = [pc EXCEPT ![c] = "recv"]
    /\ agents' = AgentsAfterRegister([name |-> unquote(param), desc |-> "d1",
                                      type |-> "t1"], "09-00-00")
    /\ UNCHANGED <<sessions, chat_record_manager, frontend_ws, parsed_data,
                   cursor, gone, delivered, nframes, http>>

\* A connection is accepted and bound under the path parameter as given; the
\* handler's local agent_name is then unquoted.
connect(c, param) ==
    /\ pc[c] = "idle"
    /\ agent_to_websocket' = Bind(param, c)
    /\ agent_name' = [agent_name EXCEPT ![c] = unquote(param)]
    /\ pc' = [pc EXCEPT ![c] = "recv"]
    /\ UNCHANGED <<agents, sessions, chat_record_manager, frontend_ws, parsed_data,
                   cursor, gone, delivered, nframes, http>>

\* receive_text returns a frame that parses as an AgentMessage.
receive_valid(c, comm_id, err) ==
    LET message == [comm_id |-> comm_id, content |-> nframes + 1] IN
    /\ pc[c] = "recv" /\ c \notin gone
    /\ nframes < MaxFrames
    /\ nframes' = nframes + 1
    /\ parsed_data' = [parsed_data EXCEPT ![c] = <<message>>]
    /\ Process(c, message, err)
    /\ UNCHANGED <<agents, sessions, http>>

\* receive_text returns a frame that does not parse: the except branch logs and
\* the loop body goes on with parsed_data as it was.
receive_malformed(c, err) ==
    /\ pc[c] = "recv" /\ c \notin gone
    /\ nframes < MaxFrames
    /\ nframes' = nframes + 1
    /\ IF parsed_data[c] = Unbound
       THEN /\ Crashed(c)
            /\ UNCHANGED <<chat_record_manager, frontend_ws>>
       ELSE Process(c, parsed_data[c][1], err)
    /\ UNCHANGED <<agents, sessions, parsed_data, http>>

\* A write that suspended completes and the handler goes on: after the mirror
\* the fan-out starts, after a member's write the next member follows.
resume(c, err) ==
    /\ pc[c] \in {"mirror", "send"}
    /\ IF pc[c] = "mirror"
       THEN FanoutStart(c, parsed_data[c][1], err)
       ELSE FanoutAt(c, parsed_data[c][1], cursor[c] + 1, err)
    /\ UNCHANGED <<agents, sessions, chat_record_manager, frontend_ws, parsed_data,
                   nframes, http>>

\* receive_text raises WebSocketDisconnect: the peer of this connection is gone.
receive_disconnect(c) ==
    /\ pc[c] = "recv" /\ c \in gone
    /\ Disconnected(c)
    /\ UNCHANGED <<agents, sessions, chat_record_manager, frontend_ws, parsed_data,
                   nframes, http>>

\* The peer of an open connection goes away.
peer_close(ch) ==
    /\ pc[ch] \in {"recv", "mirror", "send"} /\ ch \notin gone
    /\ gone' = gone \cup {ch}
    /\ UNCHANGED <<agents, sessions, chat_record_manager, agent_to_websocket,
                   frontend_ws, pc, agent_name, parsed_data, cursor, delivered,
                   nframes, http>>

\* --------------------------------------------- websocket_chatlist
\* An observer connects: it takes the slot.  The frames it sends are discarded.
chatlist_connect(o) ==
    /\ pc[o] = "idle"
    /\ frontend_ws' = o
    /\ pc' = [pc EXCEPT ![o] = "recv"]
    /\ UNCHANGED <<agents, sessions, chat_record_manager, agent_to_websocket,
                   agent_name, parsed_data, cursor, gone, delivered, nframes, http>>

\* The `except WebSocketDisconnect` branch of websocket_chatlist.
chatlist_disconnect(o) ==
    /\ pc[o] = "recv" /\ o \in gone
    /\ frontend_ws' = None
    /\ pc' = [pc EXCEPT ![o] = "closed"]
    /\ UNCHANGED <<agents, sessions, chat_record_manager, agent_to_websocket,
                   agent_name, parsed_data, cursor, gone, delivered, nframes, http>>

\* ------------------------------------------------- fetch_chat_record
\* The comm_id of a ChatRecordFetchParam: None, one id or a list of ids.
FetchParams(ids) ==
    {[kind |-> "none"]} \cup [kind : {"str"}, value : ids]
        \cup [kind : {"list"}, value : SeqsUpTo(ids, MaxFetchIds)]

\* The ids fetch_chat_record reads, in order, for a given comm_id.
FetchIds(param) == IF param.kind = "str" THEN <<param.value>> ELSE param.value

\* POST /fetch_chat_record: None asks for every record, a string for one, a
\* list for several; reading a comm_id that has no record raises KeyError and
\* the request fails.
fetch_chat_record(param) ==
    IF param.kind = "none"
    THEN [status |-> 200, body |-> chat_record_manager]
    ELSE IF \E i \in 1..Len(FetchIds(param)) :
                MissingKey(chat_record_manager, FetchIds(param)[i])
    THEN [status |-> 500, body |-> <<>>]
    ELSE [status |-> 200,
          body |-> [id \in Range(FetchIds(param)) |-> chat_record_manager[id]]]

\* ------------------------------------------------------ specification
Init ==
    /\ agents = <<>>
    /\ sessions = <<>>
    /\ chat_record_manager = <<>>
    /\ agent_to_websocket = <<>>
    /\ frontend_ws = None
    /\ pc = [ch \in Conns \cup Observers |-> "idle"]
    /\ agent_name = [c \in Conns |-> None]
    /\ parsed_data = [c \in Conns |-> Unbound]
    /\ cursor = [c \in Conns |-> 0]
    /\ gone = {}
    /\ delivered = [ch \in Conns \cup Observers |-> <<>>]
    /\ nframes = 0
    /\ http = NoRequest

\* The routing loop reads only the names of the directory: here every agent
\* registers with one description, type and time.
Register ==
    \E name \in Names :
        /\ register_agent([name |-> name, desc |-> "d1", type |-> "t1"], "09-00-00")
        /\ UNCHANGED http

Teamup ==
    \E param \in TeamupParams(Names, MaxMembers), err \in SendErrors :
        /\ teamup(param, err)
        /\ UNCHANGED http

Connect == \E c \in Conns, param \in PathParams : connect(c, param)

ReceiveValid ==
    \E c \in Conns, comm_id \in DOMAIN sessions \cup UnknownIds, err \in SendErrors :
        receive_valid(c, comm_id, err)

ReceiveMalformed == \E c \in Conns, err \in SendErrors : receive_malformed(c, err)

Resume == \E c \in Conns, err \in SendErrors : resume(c, err)

ReceiveDisconnect == \E c \in Conns : receive_disconnect(c)

PeerClose == \E ch \in Conns \cup Observers : peer_close(ch)

ChatlistConnect == \E o \in Observers : chatlist_connect(o)

ChatlistDisconnect == \E o \in Observers : chatlist_disconnect(o)

Next ==
    \/ Register
    \/ Teamup
    \/ Connect
    \/ ReceiveValid
    \/ ReceiveMalformed
    \/ Resume
    \/ ReceiveDisconnect
    \/ PeerClose
    \/ ChatlistConnect
    \/ ChatlistDisconnect

Spec == Init /\ [][Next]_vars

\* ------------------------------------------- the directory on its own
\* Registrations with every description, type and clock reading; http holds
\* the last request and the clock reading it was served at.
RegisterLogged ==
    \E agent \in AgentInfos, timestamp \in Times :
        /\ register_agent(agent, timestamp)
        /\ http' = [op |-> "register", req |-> agent, now |-> timestamp]

NextDirectory == RegisterLogged

SpecDirectory == Init /\ [][NextDirectory]_vars

\* ------------------------------------------------ retrieve on its own
\* The hits search_via_config can return: directory entries, one per name.
SearchHits ==
    [name : MoreNames, desc : {"d1"}, type : {"t1"}, created_at : {"09-00-00"}]

SearchResults == SeqsUpTo(SeqsUpTo(SearchHits, MaxHits), MaxKeywords)

\* POST /retrieve_assistant, given what the search returned for the keywords.
retrieve_assistant(res) ==
    /\ http = [op |-> "search", req |-> res]
    /\ http' = [op |-> "retrieve", req |-> res, resp |-> retrieve(res)]
    /\ UNCHANGED <<agents, sessions, chat_record_manager, agent_to_websocket,
                   frontend_ws, pc, agent_name, parsed_data, cursor, gone,
                   delivered, nframes>>

RetrieveAssistant == http.op = "search" /\ retrieve_assistant(http.req)

NextRetrieve == RetrieveAssistant

\* One request per behaviour: the search result is drawn at the start.
InitRetrieve ==
    /\ agents = <<>>
    /\ sessions = <<>>
    /\ chat_record_manager = <<>>
    /\ agent_to_websocket = <<>>
    /\ frontend_ws = None
    /\ pc = [ch \in Conns \cup Observers |-> "idle"]
    /\ agent_name = [c \in Conns |-> None]
    /\ parsed_data = [c \in Conns |-> Unbound]
    /\ cursor = [c \in Conns |-> 0]
    /\ gone = {}
    /\ delivered = [ch \in Conns \cup Observers |-> <<>>]
    /\ nframes = 0
    /\ http \in [op : {"search"}, req : SearchResults]

SpecRetrieve == InitRetrieve /\ [][NextRetrieve]_vars

\* ----------------------------------------- the teamup endpoint on its own
\* Requests that name up to MaxRequested members, among them a name that is
\* never registered; http holds the last request and its response.
RegisterName ==
    \E name \in Names :
        /\ register_agent([name |-> name, desc |-> "d1", type |-> "t1"], "09-00-00")
        /\ UNCHANGED http

TeamupLogged ==
    \E param \in TeamupParams(MoreNames, MaxRequested), err \in SendErrors :
        /\ teamup(param, err)
        /\ http' = [op |-> "teamup", req |-> param,
                    status |-> IF FrontendOutcome(err) = "raised" THEN 500 ELSE 200,
                    resp |-> TeamupResult(param)]

NextTeamup == RegisterName \/ TeamupLogged

SpecTeamup == Init /\ [][NextTeamup]_vars

\* ====================================================== properties
\* The i-th smallest element of a finite set of numbers.
Nth(idx, i) == CHOOSE k \in idx : Cardinality({j \in idx : j <= k}) = i

\* The elements of s at the positions idx, in the order of s.
SubSeqAt(s, idx) == [i \in 1..Cardinality(idx) |-> s[Nth(idx, i)]]

RECURSIVE Flatten(_)
Flatten(lists) ==
    IF Len(lists) = 0 THEN <<>> ELSE Head(lists) \o Flatten(Tail(lists))

NoDuplicates(s) == \A i, j \in 1..Len(s) : i # j => s[i] # s[j]

\* The receiver is bound to a channel that still takes writes.
Live(receiver) == HasBinding(receiver) /\ agent_to_websocket[receiver] \notin gone

\* No binding and no observer slot points at a channel that refuses writes:
\* every member is either reachable or has no binding at all.
NoDeadChannel ==
    /\ \A key \in DOMAIN agent_to_websocket : agent_to_websocket[key] \notin gone
    /\ frontend_ws = None \/ frontend_ws \notin gone

\* This step, handler c receives a frame that parses.
ValidFrameBy(c) == pc[c] = "recv" /\ parsed_data'[c] # parsed_data[c]

\* This step, some handler receives a frame that does not parse.
MalformedFrame == nframes' = nframes + 1 /\ parsed_data' = parsed_data

Active(state) == state \in {"recv", "mirror", "send"}

\* C1: when handler c stops working on a valid message for an existing session
\* (it received it or resumed its fan-out this step, and is no longer waiting
\* on a write of it), every member that is still to be served and has a live
\* binding has received the message, whatever members have no binding.
C1_FanoutSurvivesUnboundMember ==
    [][\A c \in Conns :
          (/\ ValidFrameBy(c) \/ pc[c] \in {"mirror", "send"}
           /\ pc'[c] \notin {"mirror", "send"}
           /\ NoDeadChannel
           /\ parsed_data'[c][1].comm_id \in DOMAIN sessions)
          => LET message == parsed_data'[c][1]
                 receivers == sessions[message.comm_id]
             IN  \A i \in 1..Len(receivers) :
                    (i > cursor[c] /\ Live(receivers[i]))
                    => \E k \in 1..Len(delivered'[agent_to_websocket[receivers[i]]]) :
                           delivered'[agent_to_websocket[receivers[i]]][k] = message
      ]_vars

\* C2: a frame that fails to parse leaves every receiving connection Active and
\* the registry as it was, the first frame of a connection included.
C2_MalformedFrameKeepsConnection ==
    [][MalformedFrame =>
          /\ \A c \in Conns : pc[c] = "recv" => Active(pc'[c])
          /\ agent_to_websocket' = agent_to_websocket
      ]_vars

\* C3: a frame that fails to parse appends nothing to a chat record and sends
\* nothing to the observer or to an agent.
C3_MalformedFrameDropped ==
    [][MalformedFrame =>
          /\ chat_record_manager' = chat_record_manager
          /\ delivered' = delivered
      ]_vars

\* C4: a register call for a name the directory holds leaves the directory
\* unchanged; a call for a new name adds exactly one record, with the name,
\* description and type of the request and the time of the call, and changes
\* no other record.  So each name keeps the record of its first registration.
C4_RegistrationIdempotent ==
    [][http'.op = "register" =>
          IF http'.req.name \in DOMAIN agents
          THEN agents' = agents
          ELSE /\ DOMAIN agents' = DOMAIN agents \cup {http'.req.name}
               /\ agents'[http'.req.name] =
                      [name |-> http'.req.name, desc |-> http'.req.desc,
                       type |-> http'.req.type, created_at |-> http'.now]
               /\ \A n \in DOMAIN agents : agents'[n] = agents[n]
      ]_vars

\* A later call with another description, type and time was served, and the
\* record still carries the first call's values.
C4_Witness ==
    /\ http.op = "register"
    /\ http.req.name \in DOMAIN agents
    /\ agents[http.req.name].desc # http.req.desc
    /\ agents[http.req.name].type # http.req.type
    /\ agents[http.req.name].created_at # http.now

\* C5: the result of retrieve is the concatenation of the hit lists, in keyword
\* order, restricted to the first occurrence of each name and converted to
\* AgentInfo: no name twice, every candidate name once, first occurrences in
\* their order.
C5_RetrieveFirstSeenWins ==
    http.op = "retrieve" =>
        LET flat  == Flatten(http.req)
            first == {k \in 1..Len(flat) : \A j \in 1..(k - 1) : flat[j].name # flat[k].name}
            kept  == SubSeqAt(flat, first)
            out   == http.resp
        IN  /\ Len(out) = Len(kept)
            /\ \A i \in 1..Len(out) :
                   out[i] = [name |-> kept[i].name, type |-> kept[i].type,
                             desc |-> kept[i].desc]
            /\ NoDuplicates([i \in 1..Len(out) |-> out[i].name])
            /\ {out[i].name : i \in 1..Len(out)} = {flat[k].name : k \in 1..Len(flat)}

\* Two keywords whose hit lists share a name: [A, B] and [B, C] give three agents.
C5_Witness ==
    /\ http.op = "retrieve"
    /\ Len(http.req) = 2
    /\ Len(http.req[1]) = 2 /\ Len(http.req[2]) = 2
    /\ http.req[1][1].name # http.req[1][2].name
    /\ http.req[2][1] = http.req[1][2]
    /\ http.req[2][2].name \notin {http.req[1][1].name, http.req[1][2].name}
    /\ Len(http.resp) = 3

\* C6: a teamup request stores, under a new id, the requested names followed by
\* the requester's, restricted to the names the directory holds at that moment,
\* in input order; the chat record and the returned result carry the same
\* list; no other session changes.  Nothing is required of the list: it may be
\* empty.
C6_TeamupKeepsRegisteredNames ==
    [][(http'.op = "teamup" /\ http' # http) =>
          LET input == http'.req.agent_names \o <<http'.req.sender>>
              want  == SubSeqAt(input, {k \in 1..Len(input) : input[k] \in DOMAIN agents})
              id    == http'.resp.comm_id
          IN  /\ id \notin DOMAIN sessions
              /\ DOMAIN sessions' = DOMAIN sessions \cup {id}
              /\ sessions'[id] = want
              /\ chat_record_manager'[id].agent_names = want
              /\ http'.status = 200 => http'.resp.agent_names = want
              /\ \A other \in DOMAIN sessions : sessions'[other] = sessions[other]
      ]_vars

\* teamup(["a", "b c", "x"]) by the unregistered "x", with "a" and "b c"
\* registered: the session holds exactly ["a", "b c"].
C6_Witness ==
    /\ http.op = "teamup"
    /\ http.req.agent_names = <<"a", "b c", "x">>
    /\ http.req.sender = "x"
    /\ "x" \notin DOMAIN agents
    /\ http.status = 200
    /\ sessions[http.resp.comm_id] = <<"a", "b c">>

\* C7: no session's member list holds a name twice, and so no agent channel is
\* sent the same message twice.
C7_MembersAreDistinct ==
    /\ \A id \in DOMAIN sessions : NoDuplicates(sessions[id])
    /\ \A c \in Conns : NoDuplicates(delivered[c])

\* C8: the record fetched without an id filter holds, for every session, each
\* valid message processed for it once, in processing order (the payloads are
\* numbered in arrival order), under the session's id; the last valid message
\* of every connection is there.
C8_ChatLogIsArrivalOrderHistory ==
    LET fetched == fetch_chat_record([kind |-> "none"]) IN
    /\ fetched.status = 200
    /\ DOMAIN fetched.body = DOMAIN sessions
    /\ \A id \in DOMAIN fetched.body :
          LET log == fetched.body[id].chat_record IN
          /\ \A k \in 1..Len(log) : log[k].comm_id = id
          /\ \A j, k \in 1..Len(log) : j < k => log[j].content < log[k].content
    /\ \A c \in Conns :
          (parsed_data[c] # <<>> /\ parsed_data[c][1].comm_id \in DOMAIN sessions)
          => \E k \in 1..Len(fetched.body[parsed_data[c][1].comm_id].chat_record) :
                 fetched.body[parsed_data[c][1].comm_id].chat_record[k] = parsed_data[c][1]

\* C9: for every explicit id or id list that names a session with a record,
\* whatever else it names, the request succeeds, returns the record of each
\* requested id that has one and nothing that was not requested.
C9_FetchToleratesBadId ==
    \A param \in FetchParams(DOMAIN chat_record_manager \cup UnknownIds) :
        (/\ param.kind # "none"
         /\ Range(FetchIds(param)) \cap DOMAIN chat_record_manager # {}) =>
            LET requested == Range(FetchIds(param))
                fetched   == fetch_chat_record(param)
            IN  /\ fetched.status = 200
                /\ DOMAIN fetched.body \subseteq requested
                /\ \A id \in requested \cap DOMAIN chat_record_manager :
                       /\ id \in DOMAIN fetched.body
                       /\ fetched.body[id] = chat_record_manager[id]

\* C10: a valid message that names a session the store does not hold leaves its
\* connection Active and is appended to the chat log.
C10_UnknownSessionDoesNotCrash ==
    [][\A c \in Conns :
          (ValidFrameBy(c) /\ parsed_data'[c][1].comm_id \notin DOMAIN sessions)
          => /\ Active(pc'[c])
             /\ \E id \in DOMAIN chat_record_manager' :
                    \E k \in 1..Len(chat_record_manager'[id].chat_record) :
                        chat_record_manager'[id].chat_record[k] = parsed_data'[c][1]
      ]_vars

\* This step, handler c leaves its loop because receive_text signalled the
\* disconnect of its own channel.
OwnDisconnect(c) == pc[c] = "recv" /\ c \in gone /\ pc'[c] = "closed"

\* The keys of the registry bound to channel c.
KeysOf(registry, c) == {key \in DOMAIN registry : registry[key] = c}

\* C11: after a connection's loop ends on its own disconnect signal, no key of
\* the registry is bound to its channel, whatever the name looks like when it
\* is URL-encoded.
C11_DisconnectRemovesOwnBinding ==
    [][\A c \in Conns :
          (OwnDisconnect(c) /\ KeysOf(agent_to_websocket, c) # {})
          => KeysOf(agent_to_websocket', c) = {}
      ]_vars

\* C12: a disconnect of connection c changes no binding held by another
\* connection: a name rebound by a newer connection stays bound to it.  (The
\* registry is a mapping, so a name is bound to at most one channel.)
C12_DisconnectKeepsNewerBinding ==
    [][\A c \in Conns :
          OwnDisconnect(c) =>
              \A key \in DOMAIN agent_to_websocket :
                  agent_to_websocket[key] # c =>
                      /\ key \in DOMAIN agent_to_websocket'
                      /\ agent_to_websocket'[key] = agent_to_websocket[key]
      ]_vars

\* This step runs send_to_frontend: both of its callers store a chat record
\* just before they call it.
CallsFrontend == chat_record_manager' # chat_record_manager

\* C13: when send_to_frontend is called while the observer slot holds a channel
\* that refuses the write, the slot is cleared and the caller goes on: the
\* session and its record are stored by teamup, and a routing loop whose
\* session members are all bound to live channels is not ended.
C13_ObserverFailureIsSilent ==
    [][(CallsFrontend /\ frontend_ws # None /\ frontend_ws \in gone) =>
          /\ frontend_ws' = None
          /\ \A c \in Conns :
                (pc[c] = "recv" /\ pc'[c] = "crashed") =>
                    LET receivers == sessions[parsed_data'[c][1].comm_id] IN
                    \E i \in 1..Len(receivers) : ~Live(receivers[i])
      ]_vars

\* This step, handler c works on a message of an existing session whose
\* members all have a binding: it received the message or resumed its fan-out.
RoutesToBoundMembers(c) ==
    /\ ValidFrameBy(c) \/ (pc[c] \in {"mirror", "send"} /\ pc'[c] # pc[c])
    /\ parsed_data'[c][1].comm_id \in DOMAIN sessions
    /\ \A i \in 1..Len(sessions[parsed_data'[c][1].comm_id]) :
           HasBinding(sessions[parsed_data'[c][1].comm_id][i])

\* C14: a handler whose own channel has signalled no disconnect stays Active
\* and keeps its bindings while it routes a message, whatever happens to the
\* writes to the observer and to the other members.
C14_OnlyOwnDisconnectCloses ==
    [][\A c \in Conns :
          (RoutesToBoundMembers(c) /\ c \notin gone) =>
              /\ Active(pc'[c])
              /\ KeysOf(agent_to_websocket', c) = KeysOf(agent_to_websocket, c)
      ]_vars

\* ------------------------------- connections and the directory on their own
\* Registrations with every description and type, connects and disconnects.
RegisterAny ==
    \E agent \in AgentInfos :
        /\ register_agent(agent, "09-00-00")
        /\ UNCHANGED http

NextConnection == RegisterAny \/ Connect \/ PeerClose \/ ReceiveDisconnect

SpecConnection == Init /\ [][NextConnection]_vars

\* This step, an agent connection is accepted or leaves its loop.
ConnectOrDisconnect ==
    \E c \in Conns : \/ pc[c] = "idle" /\ pc'[c] = "recv"
                     \/ Active(pc[c]) /\ pc'[c] = "closed"

\* C15: a connect or a disconnect of an agent connection leaves the directory
\* as it was, and query answers for every name what it answered before: the
\* record of a registered name, None for the others.
C15_DirectoryIndependentOfConnections ==
    [][ConnectOrDisconnect =>
          /\ agents' = agents
          /\ \A name \in Names :
                /\ query(name)' = query(name)
                /\ name \in DOMAIN agents =>
                       query(name)' = [name |-> name, desc |-> agents[name].desc,
                                       type |-> agents[name].type]
      ]_vars

\* A registered agent connected, was unbound by its disconnect, and query still
\* returns its record.
C15_Witness ==
    \E c \in Conns :
        /\ pc[c] = "closed"
        /\ agent_name[c] \in DOMAIN agents
        /\ ~HasBinding(agent_name[c])
        /\ query(agent_name[c]).desc = "d2"

\* ----------------------------------------- one agent connection's routing
\* The endpoints of Spec with a single agent connection: sessions are made,
\* names register, the connection sends frames, the observer comes and goes.
ConnectFirst == \E param \in PathParams : connect("c1", param)

NextRouting ==
    \/ Register
    \/ Teamup
    \/ ConnectFirst
    \/ ReceiveValid
    \/ ReceiveMalformed
    \/ Resume
    \/ ReceiveDisconnect
    \/ PeerClose
    \/ ChatlistConnect
    \/ ChatlistDisconnect

SpecRouting == Init /\ [][NextRouting]_vars

\* C16: the session ids that have a chat record are the session ids the
\* session store holds.
C16_ChatRecordIffSession ==
    DOMAIN chat_record_manager = DOMAIN sessions

\* A session exists and holds a message in its record, and the connection then
\* sent a valid message for an id no teamup made, which created no record.
C16_Witness ==
    /\ \E id \in DOMAIN sessions : Len(chat_record_manager[id].chat_record) > 0
    /\ parsed_data["c1"] # <<>>
    /\ parsed_data["c1"][1].comm_id \notin DOMAIN sessions

\* --------------------------------------- sessions under later operations
\* One agent connection and no observer; http keeps the last teamup request.
TeamupRouted ==
    \E param \in TeamupParams(Names, MaxMembers), err \in SendErrors :
        /\ teamup(param, err)
        /\ http' = [op |-> "teamup", req |-> param]

NextMembership ==
    \/ Register
    \/ TeamupRouted
    \/ ConnectFirst
    \/ ReceiveValid
    \/ ReceiveMalformed
    \/ Resume
    \/ ReceiveDisconnect
    \/ PeerClose

SpecMembership == Init /\ [][NextMembership]_vars

InChatLog(message) ==
    /\ message.comm_id \in DOMAIN chat_record_manager
    /\ \E k \in 1..Len(chat_record_manager[message.comm_id].chat_record) :
           chat_record_manager[message.comm_id].chat_record[k] = message

\* Every message an agent channel or an observer channel was sent is in the
\* chat log.
ReceivedArePersisted ==
    /\ \A c \in Conns : \A k \in 1..Len(delivered[c]) : InChatLog(delivered[c][k])
    /\ \A o \in Observers : \A k \in 1..Len(delivered[o]) :
           delivered[o][k].frontend_type = "message" => InChatLog(delivered[o][k].data)

\* C18: after every step, whatever a channel has been sent is in the chat log;
\* and a valid message that is appended while a live observer is bound goes to
\* the observer, and to no member before that write has completed.
C18_PersistMirrorFanout ==
    [][/\ ReceivedArePersisted'
       /\ \A c \in Conns :
             (/\ ValidFrameBy(c)
              /\ chat_record_manager' # chat_record_manager
              /\ frontend_ws # None /\ frontend_ws \notin gone)
             => /\ pc'[c] = "mirror"
                /\ \A m \in Conns : delivered'[m] = delivered[m]
                /\ delivered'[frontend_ws] =
                       Append(delivered[frontend_ws],
                              [frontend_type |-> "message", data |-> parsed_data'[c][1]])
      ]_vars

\* A message was mirrored to the observer and then delivered to a member.
C18_Witness ==
    /\ delivered["c1"] # <<>>
    /\ \E k \in 1..Len(delivered["o1"]) :
           /\ delivered["o1"][k].frontend_type = "message"
           /\ delivered["o1"][k].data = delivered["c1"][1]

\* ------------------------------------------------ an observer that is slow
\* What the event loop and responsive peers guarantee: a write to a member's
\* channel that was accepted completes, and a handler whose channel signalled
\* a disconnect runs its except branch.  A write to the observer ends when
\* its peer is gone; while the peer is there nothing makes the write complete:
\* the peer may never read.
ResumeMember ==
    \E c \in Conns, err \in SendErrors : pc[c] = "send" /\ resume(c, err)

ResumeObserverGone ==
    \E c \in Conns, err \in SendErrors :
        /\ pc[c] = "mirror"
        /\ frontend_ws = None \/ frontend_ws \in gone
        /\ resume(c, err)

FairRouting ==
    /\ WF_vars(ResumeMember)
    /\ WF_vars(ResumeObserverGone)
    /\ WF_vars(ReceiveDisconnect)
    /\ WF_vars(ChatlistDisconnect)

SpecSlowObserver == Init /\ [][NextRouting]_vars /\ FairRouting

\* Every member of the session of handler c's message that is bound to a live
\* channel has been sent the message.
LiveMembersServed(c) ==
    LET message == parsed_data[c][1]
        receivers == sessions[message.comm_id]
    IN  \A i \in 1..Len(receivers) :
            Live(receivers[i]) =>
                \E k \in 1..Len(delivered[agent_to_websocket[receivers[i]]]) :
                    delivered[agent_to_websocket[receivers[i]]][k] = message

\* C19: while handler c waits for its write to the observer, either that write
\* completes or, without it, the message still reaches every member that is
\* bound to a live channel.
C19_SlowRecipientDoesNotStall ==
    \A c \in Conns :
        (pc[c] = "mirror") ~> (pc[c] # "mirror" \/ LiveMembersServed(c))

\* ------------------------------------------------------- two observers
\* A second frontend connection, so that one observer can supersede another.
MoreObservers == Observers \cup {"o2"}

InitObservers ==
    /\ agents = <<>>
    /\ sessions = <<>>
    /\ chat_record_manager = <<>>
    /\ agent_to_websocket = <<>>
    /\ frontend_ws = None
    /\ pc = [ch \in Conns \cup MoreObservers |-> "idle"]
    /\ agent_name = [c \in Conns |-> None]
    /\ parsed_data = [c \in Conns |-> Unbound]
    /\ cursor = [c \in Conns |-> 0]
    /\ gone = {}
    /\ delivered = [ch \in Conns \cup MoreObservers |-> <<>>]
    /\ nframes = 0
    /\ http = NoRequest

ChatlistConnectAny == \E o \in MoreObservers : chatlist_connect(o)

ChatlistDisconnectAny == \E o \in MoreObservers : chatlist_disconnect(o)

PeerCloseAny == \E ch \in Conns \cup MoreObservers : peer_close(ch)

NextObservers ==
    \/ Register
    \/ Teamup
    \/ ConnectFirst
    \/ ReceiveValid
    \/ ReceiveMalformed
    \/ Resume
    \/ ReceiveDisconnect
    \/ PeerCloseAny
    \/ ChatlistConnectAny
    \/ ChatlistDisconnectAny

SpecObservers == InitObservers /\ [][NextObservers]_vars

\* C20: when the handler of an observer connection that no longer holds the
\* slot leaves its loop, the slot keeps the observer connection it holds.
C20_SupersededObserverKeepsSlot ==
    [][\A o \in MoreObservers :
          (/\ pc[o] = "recv" /\ pc'[o] = "closed"
           /\ frontend_ws # None /\ frontend_ws # o)
          => frontend_ws' = frontend_ws
      ]_vars

====
